---- MODULE Spec2Model ----
(***************************************************************************)
(* Model of the dashboard components                                       *)
(*   dashboard/components/dc_settings.py      (DCSettingsWindow)           *)
(*   dashboard/components/broker_ip_settings.py (BrokerIPDialog)           *)
(*                                                                         *)
(* Texts (table items, line edits, payloads) are sequences of one-         *)
(* character strings, so that formatting and parsing are computed.         *)
(* Numbers: a value handed to the panel is an integer count of 1e-4        *)
(* (InputPlaces decimals); the measured text and the spin box carry 3      *)
(* decimals, so they are integer counts of 1e-3; a ratio is the exact      *)
(* quotient num/den of two such counts, or +infinity.                      *)
(***************************************************************************)
EXTENDS Integers, Sequences, FiniteSets, TLC

\* Number of channels of the panel (constructor argument channel_count).
channel_count == 2

Rows == 0..(channel_count - 1)

-----------------------------------------------------------------------------
(* Text and number helpers *)

Abs(x) == IF x < 0 THEN -x ELSE x

Min(a, b) == IF a < b THEN a ELSE b

RECURSIVE Pow10(_)
Pow10(k) == IF k = 0 THEN 1 ELSE 10 * Pow10(k - 1)

Digits == <<"0", "1", "2", "3", "4", "5", "6", "7", "8", "9">>

DigitChar(d) == Digits[d + 1]

IsDigit(c) == \E d \in 0..9 : Digits[d + 1] = c

DigitVal(c) == CHOOSE d \in 0..9 : Digits[d + 1] = c

\* decimal digits of a natural number, no leading zeros
RECURSIVE NatToChars(_)
NatToChars(n) ==
    IF n < 10 THEN <<DigitChar(n)>>
    ELSE Append(NatToChars(n \div 10), DigitChar(n % 10))

\* the last k decimal digits of n, zero padded
RECURSIVE PadDigits(_, _)
PadDigits(n, k) ==
    IF k = 0 THEN <<>>
    ELSE Append(PadDigits(n \div 10, k - 1), DigitChar(n % 10))

\* value of a sequence of digit characters
RECURSIVE DigitsVal(_)
DigitsVal(s) ==
    IF s = <<>> THEN 0
    ELSE DigitsVal(SubSeq(s, 1, Len(s) - 1)) * 10 + DigitVal(s[Len(s)])

\* n / d rounded to the nearest integer (n >= 0, d > 0)
RoundDiv(n, d) ==
    LET q == n \div d
        r == n % d
    IN  IF 2 * r >= d THEN q + 1 ELSE q

\* "%.<places>f" of the non-negative count `units` of 10^-places
FormatFixed(neg, units, places) ==
    (IF neg THEN <<"-">> ELSE <<>>)
        \o NatToChars(units \div Pow10(places))
        \o <<".">>
        \o PadDigits(units % Pow10(places), places)

\* Python float(text) on a plain decimal text: [ok, neg, num, places] with
\* value (-1)^neg * num / 10^places; ok = FALSE stands for ValueError.
ParseFloat(text) ==
    LET neg    == Len(text) > 0 /\ text[1] = "-"
        body   == IF neg THEN Tail(text) ELSE text
        dots   == {i \in 1..Len(body) : body[i] = "."}
        wellf  == /\ Cardinality(dots) <= 1
                  /\ \A i \in 1..Len(body) : i \in dots \/ IsDigit(body[i])
                  /\ Len(body) > Cardinality(dots)
        dot    == IF dots = {} THEN Len(body) + 1 ELSE CHOOSE i \in dots : TRUE
        intp   == SubSeq(body, 1, dot - 1)
        frac   == SubSeq(body, dot + 1, Len(body))
    IN  IF wellf
        THEN [ok |-> TRUE, neg |-> neg, num |-> DigitsVal(intp \o frac),
              places |-> Len(frac)]
        ELSE [ok |-> FALSE, neg |-> FALSE, num |-> 0, places |-> 0]


\* repr of a Python float holding the decimal (-1)^neg * num / 10^places
\* (str(float) as used by map(str, ratio_values)): shortest digits, at least
\* one decimal, exponent form below 1e-4.
RECURSIVE StripZeros(_, _)
StripZeros(num, places) ==
    IF places > 0 /\ num % 10 = 0 THEN StripZeros(num \div 10, places - 1)
    ELSE [num |-> num, places |-> places]

ReprFloat(neg, num0, places0) ==
    LET n      == StripZeros(num0, places0)
        sign   == IF neg THEN <<"-">> ELSE <<>>
        sig    == NatToChars(n.num)
        expo   == n.places - Len(sig) + 1
    IN  IF n.places = 0
        THEN sign \o NatToChars(n.num) \o <<".", "0">>
        ELSE IF expo > 4
        THEN sign \o <<sig[1]>>
                  \o (IF Len(sig) > 1 THEN <<".">> \o Tail(sig) ELSE <<>>)
                  \o <<"e", "-">> \o PadDigits(expo, 2)
        ELSE sign \o NatToChars(n.num \div Pow10(n.places)) \o <<".">>
                  \o PadDigits(n.num % Pow10(n.places), n.places)

\* separator.join(parts), parts being texts
RECURSIVE Join(_, _)
Join(parts, sep) ==
    IF parts = <<>> THEN <<>>
    ELSE IF Len(parts) = 1 THEN parts[1]
    ELSE parts[1] \o sep \o Join(Tail(parts), sep)

-----------------------------------------------------------------------------
(* DCSettingsWindow: constants of the code *)

\* QDoubleSpinBox.setRange(-1000.0, 1000.0), setDecimals(3): counts of 1e-3
SpinDecimals == 3
SpinMin == -(1000 * Pow10(SpinDecimals))
SpinMax == 1000 * Pow10(SpinDecimals)

\* decimals of the measured text, f"{value:.3f}"
MeasuredDecimals == 3

\* decimals of a value handed to the panel, in this model: one more than shown
InputPlaces == MeasuredDecimals + 1

\* decimals of the displayed ratio, f"{ratio:.6f}"
RatioDecimals == 6

\* largest ratio shown as a number is below this: abs(ratio) < 1000
RatioDisplayLimit == 1000

Topic == <<"d","c","c","a","l","i","b","r","a","t","e","d","/","d","a","t","a">>

ResetPayload ==
    <<"$","R","e","s","e","t","C","a","l","i","b","r","a","t","i","o","n",
      "D","a","t","a","#">>

CalibrationPrefix ==
    <<"$","D","C","_","C","a","l","i","b","r","a","t","e","d","D","a","t","a",":">>

CalibrationSuffix == <<"#">>

NotApplicable == <<"N", "/", "A">>

InitialMeasuredText == <<"0", ".", "0", "0", "0">>

InitialRatioText == <<"1", ".", "0", "0", "0">>

ResetRatioText == <<"1", ".", "0", "0", "0">>

-----------------------------------------------------------------------------
(* DCSettingsWindow: pure parts *)

\* f"{float(value):.3f}" of an input value (a count of 10^-InputPlaces)
FormatMeasured(value) ==
    FormatFixed(value < 0,
                RoundDiv(Abs(value), Pow10(InputPlaces - MeasuredDecimals)),
                MeasuredDecimals)

\* QDoubleSpinBox.setValue(value): rounded to the decimals, bounded to the range
SpinSetValue(value) ==
    LET r == RoundDiv(Abs(value), Pow10(InputPlaces - SpinDecimals))
        v == IF value < 0 THEN -r ELSE r
    IN  IF v < SpinMin THEN SpinMin ELSE IF v > SpinMax THEN SpinMax ELSE v

\* the float read from a measured text, as a signed count of 1e-3
MeasuredValue(p) ==
    (IF p.neg THEN -1 ELSE 1) * p.num * Pow10(MeasuredDecimals - p.places)

\* a ratio: the quotient num/den, or +infinity
Finite(n, d) == [inf |-> FALSE, num |-> n, den |-> d]
Infinity == [inf |-> TRUE, num |-> 1, den |-> 0]
NoRatio == [inf |-> FALSE, num |-> 0, den |-> 0]

\* lines 296-299: the ratio of one row from measured and actual (counts of 1e-3)
RatioOf(measured, actual) ==
    IF Abs(measured) > 0       \* abs(measured) > 1e-9, measured a multiple of 1e-3
    THEN Finite(actual, measured)
    ELSE IF actual = 0 THEN Finite(1, 1) ELSE Infinity

\* variant: abs(ratio) <= 1000
BelowOrAtDisplayLimit(ratio) ==
    /\ ~ratio.inf
    /\ \/ (Abs(ratio.num) \div Abs(ratio.den)) < RatioDisplayLimit
       \/ /\ (Abs(ratio.num) \div Abs(ratio.den)) = RatioDisplayLimit
          /\ Abs(ratio.num) % Abs(ratio.den) = 0

\* abs(ratio) < 1000
BelowDisplayLimit(ratio) ==
    ~ratio.inf /\ (Abs(ratio.num) \div Abs(ratio.den)) < RatioDisplayLimit

\* the first k decimal digits of r/d (r < d) as an integer, and the remainder
RECURSIVE FracDigits(_, _, _)
FracDigits(r, d, k) ==
    IF k = 0 THEN [frac |-> 0, rem |-> r]
    ELSE LET p == FracDigits(r, d, k - 1)
         IN  [frac |-> p.frac * 10 + (p.rem * 10) \div d,
              rem  |-> (p.rem * 10) % d]

\* f"{ratio:.6f}" of a finite ratio below the display limit
FormatRatio(ratio) ==
    LET n  == Abs(ratio.num)
        d  == Abs(ratio.den)
        fd == FracDigits(n % d, d, RatioDecimals)
        u  == (n \div d) * Pow10(RatioDecimals) + fd.frac
                 + (IF 2 * fd.rem >= d THEN 1 ELSE 0)
    IN  FormatFixed((ratio.num < 0) # (ratio.den < 0), u, RatioDecimals)

\* lines 304-307: the text shown for a ratio
DisplayText(ratio) ==
    IF BelowDisplayLimit(ratio) THEN FormatRatio(ratio) ELSE NotApplicable

\* line 350: the float taken from a displayed ratio text
\* [ok, neg, num, places]; "N/A" gives 1.0
RatioFromText(text) ==
    IF text # NotApplicable THEN ParseFloat(text)
    ELSE [ok |-> TRUE, neg |-> FALSE, num |-> 1, places |-> 0]

-----------------------------------------------------------------------------
(* Inputs of the model *)

\* values delivered by the measurement source (counts of 10^-InputPlaces):
\* 0.0, -1.0004 and 3000.0.  None lies on a rounding tie.
Inputs == {0, -10004, 30000000}

\* value the operator types into an actual spin box (count of 1e-3): 1000.0
Typed == {1000000}

\* lists handed to update_measured_dc_values: every list of at most
\* channel_count values, and the full lists with one value (-1.0004) too many
RECURSIVE SeqsOfLen(_, _)
SeqsOfLen(S, n) ==
    IF n = 0 THEN {<<>>}
    ELSE {Append(q, x) : q \in SeqsOfLen(S, n - 1), x \in S}

Batches ==
    UNION {SeqsOfLen(Inputs, n) : n \in 0..channel_count}
        \cup {Append(q, -10004) : q \in SeqsOfLen(Inputs, channel_count)}

-----------------------------------------------------------------------------
(* State *)

VARIABLES
    mqtt_handler,   \* TRUE iff a publisher was supplied at construction
    measured,       \* row -> text of the "Measured DC" item (column 1)
    actual,         \* row -> value of the "Actual DC" spin box (count of 1e-3)
    ratio_text,     \* row -> text of the "Calibration Factor" item (column 3)
    out,            \* what the last operation of the panel did and returned
    ip_edit,        \* BrokerIPDialog: text of the host line edit
    port_edit,      \* BrokerIPDialog: text of the port line edit
    settings_file,  \* the file ~/.sarayu/mqtt_settings.json
    dlg             \* what the last operation of the dialog did and returned

panel_vars == <<mqtt_handler, measured, actual, ratio_text, out>>
broker_vars == <<ip_edit, port_edit, settings_file, dlg>>
vars == <<mqtt_handler, measured, actual, ratio_text, out,
          ip_edit, port_edit, settings_file, dlg>>

\* columns of a table row that hold a QTableWidgetItem (setItem, lines 183, 189,
\* 244); column 2 holds a cell widget (setCellWidget, line 238), not an item
ItemColumns == {0, 1, 3}

NotComputed == [i \in Rows |-> [done |-> FALSE, ratio |-> NoRatio]]

Result(op, args) ==
    [op |-> op, args |-> args, calls |-> <<>>, reports |-> <<>>,
     computed |-> NotComputed, values |-> {}]

-----------------------------------------------------------------------------
(* DCSettingsWindow: operations *)

\* FormatMeasured and SpinSetValue tabulated over the inputs
MeasuredTexts == [v \in Inputs |-> FormatMeasured(v)]
SpinValues == [v \in Inputs |-> SpinSetValue(v)]

\* set_measured_dc(channel, value), channel counted from 1
set_measured_dc(channel, value) ==
    /\ measured' = IF 1 <= channel /\ channel <= channel_count
                   THEN [measured EXCEPT ![channel - 1] = MeasuredTexts[value]]
                   ELSE measured
    /\ out' = Result("set_measured_dc", <<>>)
    /\ UNCHANGED <<mqtt_handler, actual, ratio_text>>

\* variant: the actual follows every measured update
FirstTouchAlways(current, value) == SpinValues[value]

\* lines 392-395: the actual of a row once its measured is updated with value
FirstTouch(current, value) ==
    IF Abs(current) = 0      \* abs(spinbox.value()) < 1e-9, a multiple of 1e-3
    THEN SpinValues[value]
    ELSE current

\* variant: the loop runs over every row, without the early return
RowsVisitedAll == Rows

\* rows the for loop of calculate_ratio reaches: its body ends in a return
\* (line 309, or 313 on an error), so the first iteration is the only one
RowsVisited == IF channel_count > 0 THEN {0} ELSE {}

\* lines 290-313: the body of that loop for row i
RatioRow(i, force_update) ==
    LET p == ParseFloat(measured[i])
    IN  IF ~p.ok
        THEN [text |-> ratio_text[i], done |-> FALSE, ratio |-> NoRatio]
        ELSE LET ratio == RatioOf(MeasuredValue(p), actual[i])
             IN  [text  |-> IF force_update THEN DisplayText(ratio)
                            ELSE ratio_text[i],
                  done  |-> TRUE,
                  ratio |-> ratio]

\* calculate_ratio(force_update); the value returned is computed[0].ratio
calculate_ratio(force_update) ==
    /\ ratio_text' = [i \in Rows |-> IF i \in RowsVisited
                                     THEN RatioRow(i, force_update).text
                                     ELSE ratio_text[i]]
    /\ out' = [Result("calculate_ratio", <<force_update>>)
                 EXCEPT !.computed =
                            [i \in Rows |->
                                IF i \in RowsVisited
                                THEN [done  |-> RatioRow(i, force_update).done,
                                      ratio |-> RatioRow(i, force_update).ratio]
                                ELSE NotComputed[i]],
                        !.reports =
                            IF \E i \in RowsVisited : ~RatioRow(i, force_update).done
                            THEN <<"log:Error calculating ratio">> ELSE <<>>]
    /\ UNCHANGED <<mqtt_handler, measured, actual>>

\* update_measured_dc_values(dc_values): rows 0..min(k, channel_count)-1 in
\* order; each iteration ends with calculate_ratio() (force_update False),
\* which changes nothing
update_measured_dc_values(dc_values) ==
    LET k == Min(Len(dc_values), channel_count)
    IN  /\ measured' = [i \in Rows |-> IF i < k THEN MeasuredTexts[dc_values[i + 1]]
                                       ELSE measured[i]]
        /\ actual' = [i \in Rows |-> IF i < k THEN FirstTouch(actual[i], dc_values[i + 1])
                                     ELSE actual[i]]
        /\ out' = Result("update_measured_dc_values", dc_values)
        /\ UNCHANGED <<mqtt_handler, ratio_text>>

\* the operator edits the spin box of row i
spinbox_edit(i, value) ==
    /\ actual' = [actual EXCEPT ![i] = value]
    /\ out' = Result("spinbox_edit", <<>>)
    /\ UNCHANGED <<mqtt_handler, measured, ratio_text>>

\* mqtt_handler.publish(topic, payload) as seen by the caller: the call made,
\* and whether it returned (ok) or raised
Publish(topic, payload, ok) == [topic |-> topic, payload |-> payload, ok |-> ok]

\* outcomes a publish can have; none is drawn when there is no publisher
PublishOutcomes == IF mqtt_handler THEN BOOLEAN ELSE {TRUE}

\* variant: the rows are reset only once the command is out
reset_values_after_publish(publish_ok) ==
    /\ actual' = IF mqtt_handler /\ publish_ok THEN [i \in Rows |-> 0] ELSE actual
    /\ ratio_text' = IF mqtt_handler /\ publish_ok
                     THEN [i \in Rows |-> ResetRatioText] ELSE ratio_text
    /\ out' = [Result("reset_values", <<>>) EXCEPT
                 !.calls = IF mqtt_handler
                           THEN <<Publish(Topic, ResetPayload, publish_ok)>>
                           ELSE <<>>,
                 !.reports =
                    IF ~mqtt_handler
                    THEN <<"warning:MQTT handler not available">>
                    ELSE IF publish_ok
                    THEN <<"information:Calibration reset command sent successfully!">>
                    ELSE <<"log:Error sending reset command",
                           "critical:Failed to send reset command">>]
    /\ UNCHANGED <<mqtt_handler, measured>>

\* reset_values(): lines 318-322 reset every row, lines 325-335 publish
reset_values(publish_ok) ==
    /\ actual' = [i \in Rows |-> 0]
    /\ ratio_text' = [i \in Rows |-> ResetRatioText]
    /\ out' = [Result("reset_values", <<>>) EXCEPT
                 !.calls = IF mqtt_handler
                           THEN <<Publish(Topic, ResetPayload, publish_ok)>>
                           ELSE <<>>,
                 !.reports =
                    IF ~mqtt_handler
                    THEN <<"warning:MQTT handler not available">>
                    ELSE IF publish_ok
                    THEN <<"information:Calibration reset command sent successfully!">>
                    ELSE <<"log:Error sending reset command",
                           "critical:Failed to send reset command">>]
    /\ UNCHANGED <<mqtt_handler, measured>>

\* lines 347-351: the list ratio_values, one parsed float per row in row order
RECURSIVE RatioValues(_)
RatioValues(n) ==
    IF n = 0 THEN <<>>
    ELSE Append(RatioValues(n - 1), RatioFromText(ratio_text[n - 1]))

\* variant: the separator of the commented-out line 354, ", "
CalibrationPayloadSpaced(ratio_values) ==
    CalibrationPrefix
        \o Join([j \in 1..Len(ratio_values) |->
                    ReprFloat(ratio_values[j].neg, ratio_values[j].num,
                              ratio_values[j].places)],
                <<",", " ">>)
        \o CalibrationSuffix

\* line 355: the payload built from ratio_values
CalibrationPayload(ratio_values) ==
    CalibrationPrefix
        \o Join([j \in 1..Len(ratio_values) |->
                    ReprFloat(ratio_values[j].neg, ratio_values[j].num,
                              ratio_values[j].places)],
                <<",">>)
        \o CalibrationSuffix

\* what the first except clause (lines 365-369) reports
SendFailureReports ==
    <<"log:Error sending calibration data",
      "critical:Failed to send calibration data",
      "information:Calibration data sent successfully!">>

\* variant: a failed publish is sent again and the displayed ratios are cleared
send_calibration_retrying(publish_ok) ==
    LET ratio_values == RatioValues(channel_count)
        call == Publish(Topic, CalibrationPayload(ratio_values), publish_ok)
    IN  /\ out' = [Result("send_calibration", <<>>) EXCEPT
                     !.calls = IF ~mqtt_handler THEN <<>>
                               ELSE IF publish_ok THEN <<call>> ELSE <<call, call>>,
                     !.reports =
                        IF ~mqtt_handler
                        THEN <<"warning:MQTT handler not available">>
                        ELSE IF publish_ok
                        THEN <<"information:Calibration ratios sent successfully!">>
                        ELSE SendFailureReports]
        /\ ratio_text' = IF mqtt_handler /\ ~publish_ok
                         THEN [i \in Rows |-> ResetRatioText] ELSE ratio_text
        /\ UNCHANGED <<mqtt_handler, measured, actual>>

\* send_calibration()
send_calibration(publish_ok) ==
    LET ratio_values == RatioValues(channel_count)
        parsed == \A j \in 1..Len(ratio_values) : ratio_values[j].ok
    IN  /\ out' = [Result("send_calibration", <<>>) EXCEPT
                     !.calls = IF mqtt_handler /\ parsed
                               THEN <<Publish(Topic, CalibrationPayload(ratio_values),
                                              publish_ok)>>
                               ELSE <<>>,
                     !.reports =
                        IF ~mqtt_handler
                        THEN <<"warning:MQTT handler not available">>
                        ELSE IF parsed /\ publish_ok
                        THEN <<"information:Calibration ratios sent successfully!">>
                        ELSE SendFailureReports]
        /\ UNCHANGED <<mqtt_handler, measured, actual, ratio_text>>

\* self.table.item(i, col): is there an item, and its text
HasItem(i, col) == col \in ItemColumns

ItemText(i, col) ==
    CASE col = 1 -> measured[i]
      [] col = 3 -> ratio_text[i]
      [] OTHER   -> <<>>

\* get_dc_values(): a row whose item lookup yields None raises AttributeError
\* on .text(), which is logged, and the row gets no entry
get_dc_values ==
    /\ out' = [Result("get_dc_values", <<>>) EXCEPT
                 !.values = {[channel  |-> i + 1,
                              measured |-> ItemText(i, 1),
                              actual   |-> ItemText(i, 2)] :
                                i \in {r \in Rows : HasItem(r, 1) /\ HasItem(r, 2)}},
                 !.reports = [j \in 1..Cardinality({r \in Rows :
                                       ~(HasItem(r, 1) /\ HasItem(r, 2))}) |->
                                 "log:Error reading DC values"]]
    /\ UNCHANGED <<mqtt_handler, measured, actual, ratio_text>>

-----------------------------------------------------------------------------
(* BrokerIPDialog *)

\* default arguments of the constructor and fallback values of load_settings
DefaultHost == <<>>
DefaultPort == 1883

\* largest port accepted, 0 < port <= 65535
MaxPort == 65535

\* texts the user may leave in the host line edit
HostTexts == {<<>>, <<" ", " ">>, <<"1", "0", ".", "0", ".", "0", ".", "1">>, <<" ", "h", " ">>}

\* texts the user may leave in the port line edit
PortTexts == {<<"1", "8", "8", "3">>,
              <<" ", "8", "0", " ">>,
              <<"0">>,
              <<"6", "5", "5", "3", "5">>,
              <<"6", "5", "5", "3", "6">>,
              <<"7", "0", "0", "0", "0">>,
              <<"a", "b", "c">>,
              <<>>,
              <<"-", "1">>}

Whitespace == {" ", "\t", "\n"}

\* str.strip()
RECURSIVE LStrip(_)
LStrip(t) == IF t # <<>> /\ t[1] \in Whitespace THEN LStrip(Tail(t)) ELSE t

RECURSIVE RStrip(_)
RStrip(t) ==
    IF t # <<>> /\ t[Len(t)] \in Whitespace THEN RStrip(SubSeq(t, 1, Len(t) - 1))
    ELSE t

Strip(t) == RStrip(LStrip(t))

\* int(text): [ok, value]; ok = FALSE stands for ValueError.  An optional
\* sign, then digits, single underscores allowed between digits.
ParseInt(text) ==
    LET t      == Strip(text)
        signed == t # <<>> /\ t[1] \in {"+", "-"}
        body   == IF signed THEN Tail(t) ELSE t
        wellf  == /\ body # <<>>
                  /\ \A i \in 1..Len(body) :
                        \/ IsDigit(body[i])
                        \/ /\ body[i] = "_"
                           /\ 1 < i /\ i < Len(body)
                           /\ IsDigit(body[i - 1]) /\ IsDigit(body[i + 1])
        digits == SelectSeq(body, IsDigit)
    IN  IF wellf
        THEN [ok |-> TRUE,
              value |-> (IF signed /\ t[1] = "-" THEN -1 ELSE 1) * DigitsVal(digits)]
        ELSE [ok |-> FALSE, value |-> 0]

\* variant: the upper bound of the port range is exclusive
ValidateExclusive(host_text, port_text) ==
    LET host == Strip(host_text)
        port == ParseInt(Strip(port_text))
    IN  IF host = <<>>
        THEN [verdict |-> "empty_host", host |-> host, port |-> 0]
        ELSE IF ~port.ok \/ ~(0 < port.value /\ port.value < MaxPort)
        THEN [verdict |-> "invalid_port", host |-> host, port |-> 0]
        ELSE [verdict |-> "valid", host |-> host, port |-> port.value]

\* lines 52-66: the verdict of the validation and the values it yields
Validate(host_text, port_text) ==
    LET host == Strip(host_text)
        port == ParseInt(Strip(port_text))
    IN  IF host = <<>>
        THEN [verdict |-> "empty_host", host |-> host, port |-> 0]
        ELSE IF ~port.ok \/ ~(0 < port.value /\ port.value <= MaxPort)
        THEN [verdict |-> "invalid_port", host |-> host, port |-> 0]
        ELSE [verdict |-> "valid", host |-> host, port |-> port.value]

\* the settings file: absent, or present with what a reader finds in it
NoFile ==
    [exists |-> FALSE, readable |-> FALSE, kind |-> "none", keys |-> {},
     host |-> DefaultHost, port |-> 0]

\* json.dump(settings, f, indent=4) of {"broker_host": host, "broker_port": port}
DumpedFile(host, port, readable) ==
    [exists |-> TRUE, readable |-> readable, kind |-> "object",
     keys |-> {"broker_host", "broker_port"}, host |-> host, port |-> port]

\* a file opened with 'w' whose write did not complete: truncated JSON
TruncatedFile(readable) ==
    [exists |-> TRUE, readable |-> readable, kind |-> "malformed", keys |-> {},
     host |-> DefaultHost, port |-> 0]

\* files found at the path that this dialog did not write
ForeignFiles ==
    {NoFile,
     [NoFile EXCEPT !.exists = TRUE, !.kind = "object"],
     [NoFile EXCEPT !.exists = TRUE, !.readable = TRUE, !.kind = "malformed"],
     [NoFile EXCEPT !.exists = TRUE, !.readable = TRUE, !.kind = "nonobject"]}
    \cup {[exists |-> TRUE, readable |-> TRUE, kind |-> "object", keys |-> ks,
           host |-> IF "broker_host" \in ks THEN <<"h">> ELSE DefaultHost,
           port |-> IF "broker_port" \in ks THEN 8883 ELSE 0] :
             ks \in SUBSET {"broker_host", "broker_port"}}

\* where the filesystem part of save_settings (lines 74-80) may fail
FsOutcomes == {"ok", "makedirs", "open", "write"}

NoEndpoint == [host |-> DefaultHost, port |-> 0]

DialogResult(op) ==
    [op |-> op, verdict |-> "none", settings |-> NoEndpoint, events |-> <<>>,
     reports |-> <<>>, emitted |-> <<>>, accepted |-> FALSE,
     raised |-> FALSE, ret |-> NoEndpoint]

\* the user edits the line edits
edit_host(text) ==
    /\ ip_edit' = text
    /\ dlg' = DialogResult("edit")
    /\ UNCHANGED <<port_edit, settings_file>>

edit_port(text) ==
    /\ port_edit' = text
    /\ dlg' = DialogResult("edit")
    /\ UNCHANGED <<ip_edit, settings_file>>

\* something else replaces, damages or removes the settings file
foreign_file(f) ==
    /\ settings_file' = f
    /\ dlg' = DialogResult("foreign_file")
    /\ UNCHANGED <<ip_edit, port_edit>>

\* lines 74-80: the file after the filesystem part, which fails at `fs`
FileAfterSave(f, host, port, fs) ==
    CASE fs = "ok"    -> DumpedFile(host, port, IF f.exists THEN f.readable ELSE TRUE)
      [] fs = "write" -> TruncatedFile(IF f.exists THEN f.readable ELSE TRUE)
      [] OTHER        -> f

\* lines 74-86: what save_settings does once the input is valid, in order
SaveEvents(fs) ==
    CASE fs = "ok"       -> <<"makedirs", "open", "dump", "emit", "accept">>
      [] fs = "write"    -> <<"makedirs", "open", "critical">>
      [] fs = "open"     -> <<"makedirs", "critical">>
      [] fs = "makedirs" -> <<"critical">>

\* variant: the signal is emitted and the dialog accepted outside the try block
save_settings_unguarded(fs) ==
    LET v == Validate(ip_edit, port_edit)
        endpoint == [host |-> v.host, port |-> v.port]
    IN  IF v.verdict # "valid"
        THEN /\ dlg' = [DialogResult("save_settings") EXCEPT
                          !.verdict = v.verdict,
                          !.reports =
                             IF v.verdict = "empty_host"
                             THEN <<"warning:Broker IP cannot be empty">>
                             ELSE <<"warning:Port must be a number between 1 and 65535">>]
             /\ UNCHANGED <<ip_edit, port_edit, settings_file>>
        ELSE /\ settings_file' = FileAfterSave(settings_file, v.host, v.port, fs)
             /\ dlg' = [DialogResult("save_settings") EXCEPT
                          !.verdict = v.verdict,
                          !.settings = endpoint,
                          !.events = SaveEvents(fs) \o <<"emit", "accept">>,
                          !.reports = IF fs = "ok" THEN <<>>
                                      ELSE <<"critical:Failed to save settings">>,
                          !.emitted = IF fs = "ok" THEN <<endpoint, endpoint>>
                                      ELSE <<endpoint>>,
                          !.accepted = TRUE]
             /\ UNCHANGED <<ip_edit, port_edit>>

\* save_settings()
save_settings(fs) ==
    LET v == Validate(ip_edit, port_edit)
        endpoint == [host |-> v.host, port |-> v.port]
    IN  IF v.verdict # "valid"
        THEN /\ dlg' = [DialogResult("save_settings") EXCEPT
                          !.verdict = v.verdict,
                          !.reports =
                             IF v.verdict = "empty_host"
                             THEN <<"warning:Broker IP cannot be empty">>
                             ELSE <<"warning:Port must be a number between 1 and 65535">>]
             /\ UNCHANGED <<ip_edit, port_edit, settings_file>>
        ELSE /\ settings_file' = FileAfterSave(settings_file, v.host, v.port, fs)
             /\ dlg' = [DialogResult("save_settings") EXCEPT
                          !.verdict = v.verdict,
                          !.settings = endpoint,
                          !.events = SaveEvents(fs),
                          !.reports = IF fs = "ok" THEN <<>>
                                      ELSE <<"critical:Failed to save settings">>,
                          !.emitted = IF fs = "ok" THEN <<endpoint>> ELSE <<>>,
                          !.accepted = (fs = "ok")]
             /\ UNCHANGED <<ip_edit, port_edit>>

\* lines 92-96: the try block of load_settings: the exception it raises, or
\* the value it returns, or neither (no file: control falls to line 99)
LoadBody(f) ==
    IF ~f.exists
    THEN [exc |-> "none", returned |-> FALSE, value |-> NoEndpoint]
    ELSE IF ~f.readable
    THEN [exc |-> "OSError", returned |-> FALSE, value |-> NoEndpoint]
    ELSE IF f.kind = "malformed"
    THEN [exc |-> "JSONDecodeError", returned |-> FALSE, value |-> NoEndpoint]
    ELSE IF f.kind # "object"
    THEN [exc |-> "AttributeError", returned |-> FALSE, value |-> NoEndpoint]
    ELSE [exc |-> "none", returned |-> TRUE,
          value |-> [host |-> IF "broker_host" \in f.keys THEN f.host ELSE DefaultHost,
                     port |-> IF "broker_port" \in f.keys THEN f.port ELSE DefaultPort]]

\* variant: except (OSError, ValueError), which a JSON error is, not AttributeError
CaughtNarrow(exc) == exc \in {"OSError", "JSONDecodeError"}

\* line 97: except Exception
Caught(exc) == exc \in {"OSError", "JSONDecodeError", "AttributeError"}

\* load_settings()
load_settings ==
    LET b == LoadBody(settings_file)
    IN  /\ dlg' = [DialogResult("load_settings") EXCEPT
                     !.raised = (b.exc # "none" /\ ~Caught(b.exc)),
                     !.ret = IF b.returned THEN b.value
                             ELSE [host |-> DefaultHost, port |-> DefaultPort]]
        /\ UNCHANGED <<ip_edit, port_edit, settings_file>>

\* the dialog as constructed, BrokerIPDialog(current_host="", current_port=1883)
InitBroker ==
    /\ ip_edit = DefaultHost
    /\ port_edit = NatToChars(DefaultPort)
    /\ dlg = DialogResult("init")

-----------------------------------------------------------------------------
(* Specification of the calibration panel *)

InitPanel ==
    /\ mqtt_handler \in BOOLEAN
    /\ measured = [i \in Rows |-> InitialMeasuredText]
    /\ actual = [i \in Rows |-> 0]
    /\ ratio_text = [i \in Rows |-> InitialRatioText]
    /\ out = Result("init", <<>>)

Init == InitPanel /\ InitBroker /\ settings_file = NoFile

SetMeasured ==
    /\ \E channel \in 0..(channel_count + 1), value \in Inputs :
           set_measured_dc(channel, value)
    /\ UNCHANGED broker_vars

SetMeasuredBatch ==
    /\ \E dc_values \in Batches : update_measured_dc_values(dc_values)
    /\ UNCHANGED broker_vars

SpinboxEdit ==
    /\ \E i \in Rows, value \in Typed : spinbox_edit(i, value)
    /\ UNCHANGED broker_vars

CalculateRatio ==
    /\ \E force_update \in BOOLEAN : calculate_ratio(force_update)
    /\ UNCHANGED broker_vars

ResetAll ==
    /\ \E publish_ok \in PublishOutcomes : reset_values(publish_ok)
    /\ UNCHANGED broker_vars

SendCalibration ==
    /\ \E publish_ok \in PublishOutcomes : send_calibration(publish_ok)
    /\ UNCHANGED broker_vars

GetValues ==
    /\ get_dc_values
    /\ UNCHANGED broker_vars

Next ==
    \/ SetMeasured
    \/ SetMeasuredBatch
    \/ SpinboxEdit
    \/ CalculateRatio
    \/ ResetAll
    \/ SendCalibration
    \/ GetValues

Spec == Init /\ [][Next]_vars

-----------------------------------------------------------------------------
(* Specification of the broker settings dialog *)

EditHost ==
    /\ \E text \in HostTexts : edit_host(text)
    /\ UNCHANGED panel_vars

EditPort ==
    /\ \E text \in PortTexts : edit_port(text)
    /\ UNCHANGED panel_vars

ForeignFile ==
    /\ \E f \in ForeignFiles : foreign_file(f)
    /\ UNCHANGED panel_vars

SaveSettings ==
    /\ \E fs \in FsOutcomes : save_settings(fs)
    /\ UNCHANGED panel_vars

LoadSettings ==
    /\ load_settings
    /\ UNCHANGED panel_vars

NextBroker ==
    \/ EditHost
    \/ EditPort
    \/ ForeignFile
    \/ SaveSettings
    \/ LoadSettings

InitDialog ==
    /\ InitBroker
    /\ settings_file \in ForeignFiles
    /\ InitPanel
    /\ mqtt_handler = FALSE

SpecBroker == InitDialog /\ [][NextBroker]_vars

-----------------------------------------------------------------------------
(* Properties *)

\* text literals used by the properties
OneText == <<"1", ".", "0", "0", "0">>
OnePointZero == <<"1", ".", "0">>
TopicText == <<"d","c","c","a","l","i","b","r","a","t","e","d","/","d","a","t","a">>
PrefixText ==
    <<"$","D","C","_","C","a","l","i","b","r","a","t","e","d","D","a","t","a",":">>

Reported(log, line) == \E j \in 1..Len(log) : log[j] = line

\* C1: after reset_values every row has actual 0.0 and displayed ratio "1.000",
\* whether the publish succeeded, raised or there is no publisher; the publish
\* is attempted at most once (exactly once with a publisher, never without),
\* and a failed publish is reported.
C1_ResetAlwaysLocal ==
    out.op = "reset_values" =>
        /\ \A i \in Rows : actual[i] = 0 /\ ratio_text[i] = OneText
        /\ Len(out.calls) = (IF mqtt_handler THEN 1 ELSE 0)
        /\ \A j \in 1..Len(out.calls) :
              ~out.calls[j].ok =>
                  Reported(out.reports, "critical:Failed to send reset command")
        /\ ~mqtt_handler => Reported(out.reports, "warning:MQTT handler not available")

\* C1 witness: a reset whose publish raised, on a panel that had been measured
C1_Witness ==
    /\ out.op = "reset_values"
    /\ Len(out.calls) = 1
    /\ ~out.calls[1].ok
    /\ measured[0] = <<"3", "0", "0", "0", ".", "0", "0", "0">>
    /\ actual[0] = 0

\* the payload the claim describes for rows i..channel_count-1
RECURSIVE ExpectedBody(_)
ExpectedBody(i) ==
    LET p     == ParseFloat(ratio_text[i])
        entry == IF ratio_text[i] = <<"N", "/", "A">> THEN OnePointZero
                 ELSE ReprFloat(p.neg, p.num, p.places)
    IN  IF i = channel_count - 1 THEN entry
        ELSE entry \o <<",">> \o ExpectedBody(i + 1)

\* C2: with a publisher, send_calibration makes exactly one publish call, to
\* "dccalibrated/data", with payload "$DC_CalibratedData:" + one ratio per row
\* in row order joined by "," + "#", the ratio of a row being the number parsed
\* from its displayed text, or 1.0 for "N/A".
C2_CalibrationPayload ==
    (out.op = "send_calibration" /\ mqtt_handler) =>
        /\ Len(out.calls) = 1
        /\ out.calls[1].topic = TopicText
        /\ out.calls[1].payload = PrefixText \o ExpectedBody(0) \o <<"#">>
        /\ Cardinality({j \in 1..Len(out.calls[1].payload) :
                           out.calls[1].payload[j] = ","}) = channel_count - 1

\* C2 witness: a calibration sent while the first row shows "N/A"
C2_Witness ==
    /\ out.op = "send_calibration"
    /\ Len(out.calls) = 1
    /\ out.calls[1].ok
    /\ ratio_text[0] = <<"N", "/", "A">>
    /\ SubSeq(out.calls[1].payload, 1, Len(PrefixText) + 4)
           = PrefixText \o <<"1", ".", "0", ",">>

\* C3: a send_calibration step leaves measured, actual and displayed ratio of
\* every row as they were, calls publish at most once and not at all without a
\* publisher, reports the missing publisher, and reports a failed publish.
C3_SendLeavesState ==
    [][out'.op = "send_calibration" =>
          /\ measured' = measured
          /\ actual' = actual
          /\ ratio_text' = ratio_text
          /\ Len(out'.calls) <= 1
          /\ ~mqtt_handler =>
                /\ out'.calls = <<>>
                /\ out'.reports = <<"warning:MQTT handler not available">>
          /\ \A j \in 1..Len(out'.calls) :
                ~out'.calls[j].ok =>
                    Reported(out'.reports, "critical:Failed to send calibration data")
      ]_vars

\* C3 witness: a failed send on a panel with a calibrated first row
C3_Witness ==
    /\ out.op = "send_calibration"
    /\ Len(out.calls) = 1
    /\ ~out.calls[1].ok
    /\ actual[0] # 0
    /\ ratio_text[0] # OneText

\* a delivered value (a count of 1e-4) to 3 decimals, as a signed count of 1e-3
Thousandths(value) ==
    (IF value < 0 THEN -1 ELSE 1) * ((Abs(value) + 5) \div 10)

\* the same, bounded to the range [-1000.0, 1000.0] of the actual field
Bounded(value) ==
    IF Thousandths(value) > 1000000 THEN 1000000
    ELSE IF Thousandths(value) < -1000000 THEN -1000000
    ELSE Thousandths(value)

\* the number shown by a measured text, as a signed count of 1e-3
Shown(text) ==
    LET p == ParseFloat(text)
    IN  (IF p.neg THEN -1 ELSE 1) * p.num

\* the text with 3 decimals of each delivered value
ThreeDecimals ==
    [v \in Inputs |->
        (IF v < 0 THEN <<"-">> ELSE <<>>)
            \o NatToChars(Abs(Thousandths(v)) \div 1000) \o <<".">>
            \o PadDigits(Abs(Thousandths(v)) % 1000, 3)]

\* what C4 says of a step update_measured_dc_values(dc), given the actual a
\* first-touched row i must get from the value dc[i + 1]
BatchStep(dc, FirstActual(_, _)) ==
    \A i \in Rows :
        IF i < Min(Len(dc), channel_count)
        THEN /\ measured'[i] = ThreeDecimals[dc[i + 1]]
             /\ actual[i] = 0 => actual'[i] = FirstActual(i, dc[i + 1])
             /\ actual[i] # 0 => actual'[i] = actual[i]
        ELSE /\ measured'[i] = measured[i]
             /\ actual'[i] = actual[i]
             /\ ratio_text'[i] = ratio_text[i]

ActualIsMeasured(i, value) == Shown(measured'[i])

ActualIsBounded(i, value) == Bounded(value)

\* C4 as stated: update_measured_dc_values with k values sets measured of rows
\* 0..min(k, channel_count)-1 to the values in order; a row among them whose
\* actual is zero gets actual = measured, a row whose actual is non-zero keeps
\* it; the rows from min(k, channel_count) on keep measured, actual and ratio.
C4_Original ==
    [][out'.op = "update_measured_dc_values" =>
          BatchStep(out'.args, ActualIsMeasured)]_vars

\* C4 as amended: the same, except that a first-touched row gets as actual the
\* value rounded to 3 decimals and bounded to [-1000.0, 1000.0], the range of
\* the actual field, which differs from measured for a value beyond the range.
C4_FirstTouchBounded ==
    [][out'.op = "update_measured_dc_values" =>
          BatchStep(out'.args, ActualIsBounded)]_vars

\* C4 witness: the list [3000.0] handed to a panel whose first row already had
\* the actual -1.0: row 0 shows 3000.000 and keeps its actual, row 1 is fresh
C4_Witness ==
    /\ out.op = "update_measured_dc_values"
    /\ out.args = <<30000000>>
    /\ measured[0] = <<"3", "0", "0", "0", ".", "0", "0", "0">>
    /\ actual[0] = -1000
    /\ measured[1] = <<"0", ".", "0", "0", "0">>
    /\ actual[1] = 0

\* the ratio C5 gives for measured m and actual a (counts of 1e-3)
ClaimedRatio(m, a) ==
    IF m # 0 THEN [inf |-> FALSE, num |-> a, den |-> m]
    ELSE IF a = 0 THEN [inf |-> FALSE, num |-> 1, den |-> 1]
    ELSE [inf |-> TRUE, num |-> 1, den |-> 0]

\* C5: calculate_ratio yields, for every row, the ratio of that row: a/m when
\* m # 0, 1.0 when m = 0 and a = 0, +infinity when m = 0 and a # 0.
C5_RatioOfEveryRow ==
    out.op = "calculate_ratio" =>
        \A i \in Rows :
            /\ out.computed[i].done
            /\ out.computed[i].ratio = ClaimedRatio(Shown(measured[i]), actual[i])

\* C6: a calculate_ratio(force_update=True) shows each ratio it computed as "N/A"
\* when abs(ratio) >= 1000 (+infinity included) and with 6 decimals otherwise;
\* and in every state each displayed ratio is "N/A" or a number of absolute
\* value below 1000.
C6_DisplayRule ==
    /\ (out.op = "calculate_ratio" /\ out.args = <<TRUE>>) =>
          \A i \in Rows :
              out.computed[i].done =>
                  LET r == out.computed[i].ratio
                      big == r.inf \/ (Abs(r.num) \div Abs(r.den)) >= 1000
                  IN  /\ big <=> ratio_text[i] = <<"N", "/", "A">>
                      /\ ~big => /\ ParseFloat(ratio_text[i]).ok
                                 /\ ParseFloat(ratio_text[i]).places = 6
                                 /\ ratio_text[i] = FormatRatio(r)
    /\ \A i \in Rows :
          \/ ratio_text[i] = <<"N", "/", "A">>
          \/ /\ ParseFloat(ratio_text[i]).ok
             /\ ParseFloat(ratio_text[i]).num
                   < 1000 * Pow10(ParseFloat(ratio_text[i]).places)

\* C6 witness: a forced calculation of the finite ratio 1000.0 / -1.0 = -1000
C6_Witness ==
    /\ out.op = "calculate_ratio"
    /\ out.args = <<TRUE>>
    /\ out.computed[0].done
    /\ out.computed[0].ratio = [inf |-> FALSE, num |-> 1000000, den |-> -1000]
    /\ ratio_text[0] = <<"N", "/", "A">>

\* C10: get_dc_values returns an entry for every channel 1..channel_count that
\* holds the channel's current measured and actual.
C10_SnapshotOfEveryChannel ==
    out.op = "get_dc_values" =>
        \A i \in Rows :
            \E e \in out.values :
                /\ e.channel = i + 1
                /\ e.measured = measured[i]
                /\ ParseFloat(e.actual).ok
                /\ Shown(e.actual) = actual[i]

\* texts of the examples of C7
ExampleHost == <<"1", "0", ".", "0", ".", "0", ".", "1">>
Port1883Text == <<"1", "8", "8", "3">>
Port70000Text == <<"7", "0", "0", "0", "0">>

Blank(text) == \A j \in 1..Len(text) : text[j] \in {" ", "\t", "\n"}

BadPort(text) ==
    \/ ~ParseInt(text).ok
    \/ ParseInt(text).value < 1
    \/ ParseInt(text).value > 65535

\* C7: a save_settings step rejects a host that is blank after trimming with
\* the empty-host warning, otherwise a port text that is no integer or lies
\* outside [1, 65535] with the invalid-port warning, and otherwise goes on with
\* the trimmed host and the integer port; a rejected save leaves the settings
\* file as it was, emits nothing and does not accept the dialog.
C7_Validation ==
    [][dlg'.op = "save_settings" =>
          /\ Blank(ip_edit) =>
                /\ dlg'.verdict = "empty_host"
                /\ Reported(dlg'.reports, "warning:Broker IP cannot be empty")
          /\ (~Blank(ip_edit) /\ BadPort(port_edit)) =>
                /\ dlg'.verdict = "invalid_port"
                /\ Reported(dlg'.reports,
                            "warning:Port must be a number between 1 and 65535")
          /\ (~Blank(ip_edit) /\ ~BadPort(port_edit)) =>
                /\ dlg'.verdict = "valid"
                /\ dlg'.settings = [host |-> Strip(ip_edit),
                                    port |-> ParseInt(port_edit).value]
          /\ (Blank(ip_edit) \/ BadPort(port_edit)) =>
                /\ settings_file' = settings_file
                /\ dlg'.events = <<>>
                /\ dlg'.emitted = <<>>
                /\ ~dlg'.accepted
          /\ (ip_edit = <<>> /\ port_edit = Port1883Text) =>
                dlg'.verdict = "empty_host"
          /\ (ip_edit = ExampleHost /\ port_edit = Port70000Text) =>
                dlg'.verdict = "invalid_port"
          /\ (ip_edit = ExampleHost /\ port_edit = Port1883Text) =>
                dlg'.settings = [host |-> ExampleHost, port |-> 1883]
      ]_vars

\* C7 witness: ("10.0.0.1", "70000") rejected over a settings file that exists
C7_Witness ==
    /\ dlg.op = "save_settings"
    /\ ip_edit = ExampleHost
    /\ port_edit = Port70000Text
    /\ dlg.verdict = "invalid_port"
    /\ settings_file.exists

\* position of the first occurrence of an event, 0 when it did not happen
EventAt(events, e) ==
    IF \E j \in 1..Len(events) : events[j] = e
    THEN CHOOSE j \in 1..Len(events) :
            events[j] = e /\ \A l \in 1..(j - 1) : events[l] # e
    ELSE 0

\* C8: a save whose input is valid emits settings_updated exactly once, after
\* the dump into the file, with the (host, port) the file now holds, and accepts
\* the dialog; when makedirs, open or the write fails, the failure is reported,
\* nothing is emitted and the dialog is not accepted.
C8_NotifyAfterWrite ==
    (dlg.op = "save_settings" /\ dlg.verdict = "valid") =>
        IF EventAt(dlg.events, "dump") > 0
        THEN /\ settings_file.exists
             /\ settings_file.kind = "object"
             /\ settings_file.keys = {"broker_host", "broker_port"}
             /\ dlg.emitted = <<[host |-> settings_file.host,
                                 port |-> settings_file.port]>>
             /\ dlg.emitted[1] = dlg.settings
             /\ EventAt(dlg.events, "emit") > EventAt(dlg.events, "dump")
             /\ dlg.accepted
             /\ dlg.reports = <<>>
        ELSE /\ Reported(dlg.reports, "critical:Failed to save settings")
             /\ dlg.emitted = <<>>
             /\ EventAt(dlg.events, "emit") = 0
             /\ ~dlg.accepted

\* C8 witness: (" h ", " 80 ") saved: one notification of ("h", 80)
C8_Witness ==
    /\ dlg.op = "save_settings"
    /\ ip_edit = <<" ", "h", " ">>
    /\ dlg.emitted = <<[host |-> <<"h">>, port |-> 80]>>
    /\ settings_file.port = 80
    /\ dlg.accepted

Loaded(f) ==
    LET b == LoadBody(f)
    IN  IF b.returned THEN b.value
        ELSE [host |-> DefaultHost, port |-> DefaultPort]

\* the settings file is absent, or readable and as a save dumped it
Stored(f) ==
    f.exists => /\ f.readable
                /\ f.kind = "object"
                /\ f.keys = {"broker_host", "broker_port"}

\* C11: over a settings file that is absent or holds an endpoint as a save
\* dumped it, every save attempt keeps the round trip: after a successful save,
\* load() returns exactly the (host, port) just saved; after a save attempt that
\* fails, by validation or in the filesystem, load() returns what it returned
\* before the attempt.
C11_SaveRoundTrip ==
    [][(dlg'.op = "save_settings" /\ Stored(settings_file)) =>
           IF dlg'.accepted
           THEN Loaded(settings_file') = dlg'.settings
           ELSE Loaded(settings_file') = Loaded(settings_file)
      ]_vars

\* ",1.0" once per row after the first, as at the end of a payload before "#"
OnesTail ==
    [j \in 1..(4 * (channel_count - 1)) |->
        <<",", "1", ".", "0">>[((j - 1) % 4) + 1]]

====
